---- MODULE Spec2Model ----
(***************************************************************************)
(* A model of the JWT decoder and verifier components of jwt-decoder:      *)
(*   JwtDecoder  (src/src/components/jwt/jwt-decoder.tsx)                  *)
(*   JwtTool, fetchWithCorsProxyFallback, JwtVerifier                      *)
(*               (src/src/components/jwt/jwt-tool.tsx)                     *)
(* Text is modelled as sequences of one-character strings, binary strings  *)
(* (the result of atob) as sequences of character codes.                   *)
(***************************************************************************)
EXTENDS Integers, Sequences, FiniteSets, TLC

VARIABLES
    \* JwtDecoder / JwtTool
    jwtToken,            \* useState<string>("")           jwt-decoder.tsx:33
    decodedJwt,          \* useState<DecodedJWT>           jwt-decoder.tsx:34
    currentJwt,          \* JwtTool's useState<string>("") jwt-tool.tsx:10
    toast,               \* the last toast shown by the decoder
    lastDecode,          \* history: the last call of decodeJwt and how it ended
    \* JwtVerifier
    verificationMethod,  \* useState("asymmetricKey")      jwt-tool.tsx:168
    verificationResult,  \* useState(null)                 jwt-tool.tsx:171
    isVerifying,         \* useState(false)                jwt-tool.tsx:176
    \* the one verification call in flight (none while pc = "idle")
    pc,                  \* the await the call is suspended at
    values,              \* the form values the call was submitted with
    fetchSite,           \* which fetchWithCorsProxyFallback call: "config", "jwks"
    fetchStage,          \* which fetch inside it: "direct", "proxy", "fallback"
    fetchUrl,            \* its url argument
    response,            \* the body of the Response being read by .json()
    config,              \* the parsed OpenID configuration
    matchingKey,         \* the JWK found in the fetched JWKS
    requests,            \* history: every HTTP request issued by the call
    unhandled            \* history: an error left an entry point uncaught

decoderVars == <<jwtToken, decodedJwt, currentJwt, toast, lastDecode>>

verifierVars ==
    <<verificationMethod, verificationResult, isVerifying, pc, values,
      fetchSite, fetchStage, fetchUrl, response, config, matchingKey,
      requests, unhandled>>

vars == <<decoderVars, verifierVars>>

-----------------------------------------------------------------------------
(* Bounds of the model.                                                    *)

\* The decoder's input texts have at most this many '.'-separated segments.
MaxSegments == 4

\* A JWKS served by the network holds at most this many keys.
MaxKeys == 2

-----------------------------------------------------------------------------
(* Text helpers.                                                           *)

\* The printable ASCII characters, code 32 first (the grave accent, which a
\* string of this notation cannot hold, is spelled out).
Ascii ==
    <<" ", "!", "\"", "#", "$", "%", "&", "'", "(", ")", "*", "+", ",", "-",
      ".", "/", "0", "1", "2", "3", "4", "5", "6", "7", "8", "9", ":", ";",
      "<", "=", ">", "?", "@", "A", "B", "C", "D", "E", "F", "G", "H", "I",
      "J", "K", "L", "M", "N", "O", "P", "Q", "R", "S", "T", "U", "V", "W",
      "X", "Y", "Z", "[", "\\", "]", "^", "_", "grave", "a", "b", "c", "d", "e",
      "f", "g", "h", "i", "j", "k", "l", "m", "n", "o", "p", "q", "r", "s",
      "t", "u", "v", "w", "x", "y", "z", "{", "|", "}", "~">>

\* The character code of a printable character.
CharCode(c) == 31 + (CHOOSE i \in 1..Len(Ascii) : Ascii[i] = c)

\* A text as the binary string of its character codes.
Bytes(s) == [i \in 1..Len(s) |-> CharCode(s[i])]

\* A binary string as text; a code that is no printable character is
\* spelled out and so differs from every character.
TextOf(bytes) ==
    [i \in 1..Len(bytes) |->
        IF bytes[i] \in 32..126 THEN Ascii[bytes[i] - 31] ELSE "unprintable"]

IsSpace(c) == c \in {" ", "\t", "\n", "\r", "\f"}

\* String.prototype.trim: the text between the first and the last character
\* that is no white space.
Trim(s) ==
    LET inked == { i \in 1..Len(s) : ~IsSpace(s[i]) }
    IN IF inked = {} THEN <<>>
       ELSE SubSeq(s, CHOOSE i \in inked : \A j \in inked : i <= j,
                      CHOOSE i \in inked : \A j \in inked : j <= i)

\* String.prototype.split(sep) for a one-character separator: the pieces
\* between the separators, empty pieces kept; "" splits into [""].
Split(s, sep) ==
    LET at == { i \in 1..Len(s) : s[i] = sep }
        \* the position of the k-th separator; 0 and Len(s) + 1 bound the text
        cut(k) == IF k = 0 THEN 0
                  ELSE IF k > Cardinality(at) THEN Len(s) + 1
                  ELSE CHOOSE i \in at : Cardinality({ j \in at : j < i }) = k - 1
    IN [k \in 1..(Cardinality(at) + 1) |-> SubSeq(s, cut(k - 1) + 1, cut(k) - 1)]

-----------------------------------------------------------------------------
(* window.atob: the forgiving-base64 decode of the HTML standard.          *)

Base64Alphabet ==
    <<"A", "B", "C", "D", "E", "F", "G", "H", "I", "J", "K", "L", "M", "N",
      "O", "P", "Q", "R", "S", "T", "U", "V", "W", "X", "Y", "Z", "a", "b",
      "c", "d", "e", "f", "g", "h", "i", "j", "k", "l", "m", "n", "o", "p",
      "q", "r", "s", "t", "u", "v", "w", "x", "y", "z", "0", "1", "2", "3",
      "4", "5", "6", "7", "8", "9", "+", "/">>

IsBase64Char(c) == \E i \in 1..Len(Base64Alphabet) : Base64Alphabet[i] = c

\* The 6-bit value of a base64 character.
Sextet(c) == (CHOOSE i \in 1..Len(Base64Alphabet) : Base64Alphabet[i] = c) - 1

RemoveSpaces(s) == SelectSeq(s, LAMBDA c : ~IsSpace(c))

\* One or two trailing '=' are dropped when the length is a multiple of 4.
StripPadding(s) ==
    IF Len(s) > 0 /\ Len(s) % 4 = 0 /\ s[Len(s)] = "="
    THEN IF s[Len(s) - 1] = "="
         THEN SubSeq(s, 1, Len(s) - 2)
         ELSE SubSeq(s, 1, Len(s) - 1)
    ELSE s

\* The bytes of a run of base64 characters: byte k is made of the bits
\* 8(k-1) .. 8k-1 of the run's sextets, and spare bits at the end are dropped
\* (4 characters give 3 bytes, a rest of 2 gives 1 byte, a rest of 3 gives 2).
DecodeSextets(s) ==
    [k \in 1..((Len(s) * 6) \div 8) |->
        LET first == (8 * (k - 1)) \div 6 + 1
            skip == (8 * (k - 1)) % 6
            pair == Sextet(s[first]) * 64 + Sextet(s[first + 1])
        IN (pair \div (2 ^ (4 - skip))) % 256]

\* atob(s): [ok |-> TRUE, value |-> bytes], or the InvalidCharacterError.
Atob(s) ==
    LET data == StripPadding(RemoveSpaces(s))
    IN IF Len(data) % 4 = 1
          \/ \E i \in 1..Len(data) : ~IsBase64Char(data[i])
       THEN [ok |-> FALSE, error |-> "InvalidCharacterError"]
       ELSE [ok |-> TRUE, value |-> DecodeSextets(data)]

-----------------------------------------------------------------------------
(* JSON values and JSON.parse.                                             *)
(* An object is [type |-> "object", props |-> f], f a function from the    *)
(* names of its properties to their values; null, numbers, strings,        *)
(* booleans and arrays are tagged likewise.                                *)

NoProps == [p \in {} |-> ""]

JsonObject(props) == [type |-> "object", props |-> props]
JsonNull == [type |-> "null"]
JsonNumber(n) == [type |-> "number", value |-> n]
JsonString(s) == [type |-> "string", value |-> s]
JsonBoolean(b) == [type |-> "boolean", value |-> b]
JsonArray(items) == [type |-> "array", items |-> items]

\* The JSON texts of the model, each with the value JSON.parse gives it.
\* Every other text the model's inputs decode to is not JSON at all.
JsonTexts ==
    << [text |-> <<"{", "}">>, value |-> JsonObject(NoProps)],
       [text |-> <<"1">>, value |-> JsonNumber(1)],
       [text |-> <<"n", "u", "l", "l">>, value |-> JsonNull],
       [text |-> <<"[", "]">>, value |-> JsonArray(<<>>)],
       [text |-> <<"\"", "a", "\"">>, value |-> JsonString("a")],
       [text |-> <<"t", "r", "u", "e">>, value |-> JsonBoolean(TRUE)],
       [text |-> <<"{", "\"", "a", "l", "g", "\"", ":", "\"", "R", "S", "2", "5",
                   "6", "\"", ",", "\"", "k", "i", "d", "\"", ":", "\"", "a", "\"",
                   "}">>,
        value |-> JsonObject([alg |-> "RS256", kid |-> "a"])],
       [text |-> <<"{", "\"", "a", "l", "g", "\"", ":", "\"", "R", "S", "2", "5",
                   "6", "\"", "}">>,
        value |-> JsonObject([alg |-> "RS256"])],
       [text |-> <<"{", "\"", "a", "l", "g", "\"", ":", "\"", "H", "S", "2", "5",
                   "6", "\"", "}">>,
        value |-> JsonObject([alg |-> "HS256"])],
       [text |-> <<"{", "\"", "i", "s", "s", "\"", ":", "\"", "i", "\"", "}">>,
        value |-> JsonObject([iss |-> "i"])],
       [text |-> <<"{", "\"", "i", "s", "s", "\"", ":", "\"", "j", "\"", "}">>,
        value |-> JsonObject([iss |-> "j"])],
       [text |-> <<"{", "\"", "s", "u", "b", "\"", ":", "\"", "~", "\"", "}">>,
        value |-> JsonObject([sub |-> "~"])] >>

\* JSON.parse of a binary string: the value, or the SyntaxError.
JsonParse(bytes) ==
    LET text == TextOf(bytes)
    IN IF \E i \in 1..Len(JsonTexts) : JsonTexts[i].text = text
       THEN [ok |-> TRUE,
             value |-> JsonTexts[CHOOSE i \in 1..Len(JsonTexts) :
                                     JsonTexts[i].text = text].value]
       ELSE [ok |-> FALSE, error |-> "SyntaxError"]

\* JSON.parse(atob(segment)), as jwt-decoder.tsx:54-55 and jwt-tool.tsx:232,338
ParseSegment(segment) ==
    LET decoded == Atob(segment)
    IN IF decoded.ok THEN JsonParse(decoded.value) ELSE decoded

-----------------------------------------------------------------------------
(* Tokens as an issuer makes them (RFC 7515): the JSON text of an object,  *)
(* base64url-encoded without padding.                                      *)

\* JSON.stringify of a value of the model, as a binary string.
JsonStringify(value) ==
    Bytes(JsonTexts[CHOOSE i \in 1..Len(JsonTexts) : JsonTexts[i].value = value].text)

\* The URL-safe alphabet: '-' and '_' in the places of '+' and '/'.
Base64UrlAlphabet ==
    [i \in 1..64 |-> CASE i = 63 -> "-" [] i = 64 -> "_" [] OTHER -> Base64Alphabet[i]]

\* base64url without padding: character k holds the bits 6(k-1) .. 6k-1 of
\* the bytes, zero bits filling the last character.
Base64UrlEncode(bytes) ==
    [k \in 1..((Len(bytes) * 8 + 5) \div 6) |->
        LET first == (6 * (k - 1)) \div 8 + 1
            skip == (6 * (k - 1)) % 8
            next == IF first < Len(bytes) THEN bytes[first + 1] ELSE 0
            pair == bytes[first] * 256 + next
        IN Base64UrlAlphabet[((pair \div (2 ^ (10 - skip))) % 64) + 1]]

\* The compact form of a header, a payload and a signature segment.
EncodeToken(header, payload, signature) ==
    Base64UrlEncode(JsonStringify(header)) \o <<".">>
        \o Base64UrlEncode(JsonStringify(payload)) \o <<".">> \o signature

-----------------------------------------------------------------------------
(* URLs. A URL is a sequence of pieces of text.                            *)

CorsProxyPrefix == "https://corsproxy.io/?"

\* encodeURIComponent, piece by piece.
EncodeURIComponentPiece(piece) ==
    CASE piece = "https://idp.example" -> "https%3A%2F%2Fidp.example"
      [] piece = "/" -> "%2F"
      [] OTHER -> piece

EncodeURIComponent(url) == [i \in 1..Len(url) |-> EncodeURIComponentPiece(url[i])]

\* `https://corsproxy.io/?${encodeURIComponent(url)}`
ProxyUrl(url) == <<CorsProxyPrefix>> \o EncodeURIComponent(url)

IsProxyUrl(url) == url # <<>> /\ url[1] = CorsProxyPrefix

\* The issuer URLs entered in the form: with and without a trailing slash.
IssuerUrls == { <<"https://idp.example">>, <<"https://idp.example", "/">> }

WellKnownPath == ".well-known/openid-configuration"

OpenIdConfigUrl(issuerUrl) ==
    IF issuerUrl[Len(issuerUrl)] = "/"
    THEN issuerUrl \o <<WellKnownPath>>
    ELSE issuerUrl \o <<"/", WellKnownPath>>

\* The provider's jwks_uri and issuer.
ProviderJwksUri == <<"https://idp.example", "/", "jwks">>
ProviderIssuer == "i"

-----------------------------------------------------------------------------
(* What the network answers. A request ends "ok" (response.ok, with a      *)
(* body), "status" (a response with a non-success status) or "network"     *)
(* (fetch rejects).                                                        *)

Outcomes == {"ok", "status", "network"}

\* The JWKs of the model: a key id and the key it stands for.
Jwks == { [kid |-> "a", key |-> "K1"], [kid |-> "b", key |-> "K2"] }

JwkSets == UNION { [1..n -> Jwks] : n \in 0..MaxKeys }

NotJson == [json |-> FALSE]
JsonBody(props) == [json |-> TRUE, props |-> props]

DiscoveryDocument == JsonBody([issuer |-> ProviderIssuer, jwks_uri |-> ProviderJwksUri])
DiscoveryNoIssuer == JsonBody([jwks_uri |-> ProviderJwksUri])
DiscoveryNoJwksUri == JsonBody([issuer |-> ProviderIssuer])
JwksDocument(keys) == JsonBody([keys |-> keys])

\* The provider's JWKS: key id "a" is key K1.
ProviderJwks == JwksDocument(<<[kid |-> "a", key |-> "K1"]>>)

\* The bodies served for a url: at the JWKS url a body that is not JSON, a
\* JSON body without keys, or a JWKS; at any other url a body that is not
\* JSON or a discovery document with or without issuer and jwks_uri.
IsJwksUrl(url) == url[Len(url)] \in {"jwks", "%2Fjwks"}

Bodies(url) ==
    IF IsJwksUrl(url)
    THEN {NotJson, DiscoveryNoJwksUri} \cup { JwksDocument(keys) : keys \in JwkSets }
    ELSE {NotJson, DiscoveryDocument, DiscoveryNoIssuer, DiscoveryNoJwksUri}

NoBody == [json |-> FALSE, none |-> TRUE]

\* obj.name of a parsed body; undefined is modelled by Has being false.
Has(body, name) == name \in DOMAIN body.props

-----------------------------------------------------------------------------
(* The tokens submitted to the verifier.                                   *)

\* base64 of {"alg":"RS256","kid":"a"}
HeaderRs256KidA ==
    <<"e", "y", "J", "h", "b", "G", "c", "i", "O", "i", "J", "S", "U", "z",
      "I", "1", "N", "i", "I", "s", "I", "m", "t", "p", "Z", "C", "I", "6",
      "I", "m", "E", "i", "f", "Q">>
\* base64 of {"alg":"RS256"}
HeaderRs256 ==
    <<"e", "y", "J", "h", "b", "G", "c", "i", "O", "i", "J", "S", "U", "z",
      "I", "1", "N", "i", "J", "9">>
\* base64 of {"alg":"HS256"}
HeaderHs256 ==
    <<"e", "y", "J", "h", "b", "G", "c", "i", "O", "i", "J", "I", "U", "z",
      "I", "1", "N", "i", "J", "9">>
\* base64 of null, of {} and of {
HeaderNull == <<"b", "n", "V", "s", "b", "A">>
EmptyObject == <<"e", "3", "0">>
HeaderNotJson == <<"e", "w">>
\* base64 of {"iss":"i"} and of {"iss":"j"}
PayloadIssI ==
    <<"e", "y", "J", "p", "c", "3", "M", "i", "O", "i", "J", "p", "I", "n", "0">>
PayloadIssJ ==
    <<"e", "y", "J", "p", "c", "3", "M", "i", "O", "i", "J", "q", "I", "n", "0">>

\* Signature segments. The cryptography is not modelled: a signature segment
\* stands for the key that made it over the token's signing input.
SignatureK1 == <<"K", "1">>
SignatureK2 == <<"K", "2">>
SignatureS1 == <<"S", "1">>

Signer(signature) ==
    CASE signature = SignatureK1 -> "K1"
      [] signature = SignatureK2 -> "K2"
      [] signature = SignatureS1 -> "S1"
      [] OTHER -> "nobody"

Token(header, payload, signature) ==
    header \o <<".">> \o payload \o <<".">> \o signature

VerifierTokens ==
    { Token(HeaderRs256KidA, PayloadIssI, SignatureK1),
      Token(HeaderRs256KidA, PayloadIssJ, SignatureK1),
      Token(HeaderRs256KidA, PayloadIssI, SignatureK2),
      Token(HeaderRs256, PayloadIssI, SignatureK1),
      Token(HeaderHs256, PayloadIssI, SignatureS1),
      Token(HeaderNull, PayloadIssI, SignatureK1),
      Token(EmptyObject, PayloadIssI, SignatureK1),
      Token(HeaderNotJson, PayloadIssI, SignatureK1),
      <<"n", "o", "t", "-", "a", "-", "j", "w", "t">> }

\* JSON.parse(atob(token.split(".")[0])) of jwt-tool.tsx:232 and 338, worked
\* out once for each token of the model.
TokenHeaders ==
    { <<token, ParseSegment(Split(token, ".")[1])>> : token \in VerifierTokens }

TokenHeader(token) == (CHOOSE entry \in TokenHeaders : entry[1] = token)[2]

-----------------------------------------------------------------------------
(* The jose library, as far as the verifier's calls depend on it.          *)

\* jose's base64url decode: '-' and '_' are mapped to '+' and '/', then atob.
JoseDecode(segment) ==
    Atob([i \in 1..Len(segment) |->
            CASE segment[i] = "-" -> "+"
              [] segment[i] = "_" -> "/"
              [] OTHER -> segment[i]])

HasProp(value, name) == value.type = "object" /\ name \in DOMAIN value.props

\* The key type an algorithm needs.
KeyTypeOf(alg) ==
    CASE alg \in {"RS256", "RS384", "RS512", "PS256", "PS384", "PS512"} -> "RSA"
      [] alg \in {"ES256", "ES384", "ES512"} -> "EC"
      [] alg \in {"HS256", "HS384", "HS512"} -> "oct"
      [] OTHER -> "unsupported"

\* The keys of the model: K1 and K2 are RSA public keys, S1 and S2 secrets.
KeyType(key) == IF key \in {"K1", "K2"} THEN "RSA" ELSE "oct"

\* jose's reading of a token in compact form: its three parts, the header
\* and the payload decoded and parsed.
JoseCompact(token) ==
    LET parts == Split(token, ".")
        header == JoseDecode(parts[1])
        payload == JoseDecode(parts[2])
    IN IF Len(parts) # 3 THEN [compact |-> FALSE]
       ELSE [compact |-> TRUE,
             header |-> IF header.ok THEN JsonParse(header.value) ELSE header,
             payload |-> IF payload.ok THEN JsonParse(payload.value) ELSE payload,
             signature |-> parts[3]]

\* That reading, worked out once for each token of the model.
JoseCompacts == { <<token, JoseCompact(token)>> : token \in VerifierTokens }

JoseToken(token) == (CHOOSE entry \in JoseCompacts : entry[1] = token)[2]

\* What jwtVerify checks before it needs the key: the compact form, the
\* protected header and the algorithms option ({} when the option is absent).
JoseProtectedHeader(token, algorithms) ==
    LET jws == JoseToken(token)
    IN IF ~jws.compact THEN [ok |-> FALSE, error |-> "Invalid Compact JWS"]
       ELSE IF ~jws.header.ok \/ jws.header.value.type # "object"
       THEN [ok |-> FALSE, error |-> "JWS Protected Header is invalid"]
       ELSE IF ~HasProp(jws.header.value, "alg")
       THEN [ok |-> FALSE, error |-> "JWS alg Header Parameter missing or invalid"]
       ELSE IF algorithms # {} /\ jws.header.value.props.alg \notin algorithms
       THEN [ok |-> FALSE, error |-> "alg Header Parameter value not allowed"]
       ELSE [ok |-> TRUE, value |-> jws.header.value]

\* What jwtVerify checks once it has the key: the key against the algorithm,
\* the signature, the claims set and the issuer option ({} when absent,
\* {issuer} when given). The token has passed JoseProtectedHeader.
JoseVerifyWithKey(token, key, issuerOption) ==
    LET jws == JoseToken(token)
        header == jws.header.value
        payload == jws.payload
    IN IF KeyType(key) # KeyTypeOf(header.props.alg)
       THEN [ok |-> FALSE, error |-> "Key does not fit the algorithm"]
       ELSE IF Signer(jws.signature) # key
       THEN [ok |-> FALSE, error |-> "signature verification failed"]
       ELSE IF ~payload.ok \/ payload.value.type # "object"
       THEN [ok |-> FALSE, error |-> "JWT Claims Set must be a top-level JSON object"]
       ELSE IF issuerOption # {} /\ ~HasProp(payload.value, "iss")
       THEN [ok |-> FALSE, error |-> "missing required iss claim"]
       ELSE IF issuerOption # {} /\ payload.value.props.iss \notin issuerOption
       THEN [ok |-> FALSE, error |-> "unexpected iss claim value"]
       ELSE [ok |-> TRUE, payload |-> payload.value, protectedHeader |-> header]

\* jose.importSPKI(publicKey, alg): the PEM texts of the model are those of
\* K1 and K2; any other text is no PEM.
ImportSPKI(publicKey, alg) ==
    IF publicKey \notin {"PEM K1", "PEM K2"}
    THEN [ok |-> FALSE, error |-> "spki must be SPKI formatted string"]
    ELSE IF KeyTypeOf(alg) \notin {"RSA", "EC"}
    THEN [ok |-> FALSE, error |-> "Invalid or unsupported alg"]
    ELSE IF KeyTypeOf(alg) # "RSA"
    THEN [ok |-> FALSE, error |-> "DataError"]
    ELSE [ok |-> TRUE, key |-> IF publicKey = "PEM K1" THEN "K1" ELSE "K2"]

-----------------------------------------------------------------------------
(* JwtDecoder.                                                             *)

NullDecodedJwt == [header |-> JsonNull, payload |-> JsonNull, signature |-> [null |-> TRUE]]

ToastSuccess == "JWT decoded successfully"
ToastEnterToken == "Please enter a JWT token"
ToastInvalidFormat == "Invalid JWT format. Expected three parts separated by dots."

\* decodeJwt's try block with the length test weakened to "at least three".
DecodeTokenAtLeastThree(token) ==
    LET parts == Split(token, ".")
    IN IF Len(parts) < 3
       THEN [ok |-> FALSE, error |-> ToastInvalidFormat]
       ELSE LET header == ParseSegment(parts[1])
                payload == ParseSegment(parts[2])
            IN IF ~header.ok THEN header
               ELSE IF ~payload.ok THEN payload
               ELSE [ok |-> TRUE,
                     decoded |-> [header |-> header.value,
                                  payload |-> payload.value,
                                  signature |-> [null |-> FALSE, text |-> parts[3]]]]

\* The try block of decodeJwt: what it computes for a token text.
DecodeToken(token) ==
    LET parts == Split(token, ".")
    IN IF Len(parts) # 3
       THEN [ok |-> FALSE, error |-> ToastInvalidFormat]
       ELSE LET header == ParseSegment(parts[1])
                payload == ParseSegment(parts[2])
            IN IF ~header.ok THEN header
               ELSE IF ~payload.ok THEN payload
               ELSE [ok |-> TRUE,
                     decoded |-> [header |-> header.value,
                                  payload |-> payload.value,
                                  signature |-> [null |-> FALSE, text |-> parts[3]]]]

\* decodeJwt() with the token text of the current render.
decodeJwt(token) ==
    IF Trim(token) = <<>>
    THEN /\ toast' = ToastEnterToken
         /\ lastDecode' = [token |-> token, result |-> "empty"]
         /\ UNCHANGED <<decodedJwt, currentJwt>>
    ELSE LET r == DecodeToken(token)
         IN IF r.ok
            THEN /\ decodedJwt' = r.decoded
                 /\ currentJwt' = token
                 /\ toast' = ToastSuccess
                 /\ lastDecode' = [token |-> token, result |-> "success"]
            ELSE /\ toast' = r.error
                 /\ lastDecode' = [token |-> token, result |-> "error"]
                 /\ UNCHANGED <<decodedJwt, currentJwt>>

\* The auto-decode effect, run after a render in which jwtToken changed.
AutoDecodeEffect(token) ==
    IF Trim(token) # <<>>
    THEN decodeJwt(token)
    ELSE /\ decodedJwt' = NullDecodedJwt
         /\ UNCHANGED <<currentJwt, toast, lastDecode>>

\* The segments the input texts are put together from: the empty segment
\* and the base64 of "{}".
SegmentPool == { <<>>, <<"e", "3", "0">> }

\* Further input texts: the other JSON types (1, null, [], "a", true), text
\* that is not JSON, text that is not base64, padding, blanks, and
\* Scenario A's "not-a-jwt".
ExtraTokens ==
    { <<"M", "Q", ".", "M", "Q", ".", "x">>,
      <<"e", "3", "0", ".", "M", "Q", ".">>,
      <<"b", "n", "V", "s", "b", "A", ".", "W", "1", "0", ".", "x">>,
      <<"I", "m", "E", "i", ".", "d", "H", "J", "1", "Z", "Q", ".", "x">>,
      <<"e", "w", ".", "e", "3", "0", ".", "x">>,
      <<"e", "3", "0", ".", "e", ".", "x">>,
      <<"e", "3", "0", "=", ".", "e", "3", "0", ".", "x">>,
      <<"e", "-", "0", ".", "e", "3", "0", ".", "x">>,
      <<" ">>,
      <<" ", ".", "e", "3", "0", ".", "x">>,
      <<" ", "e", "3", "0", ".", "e", "3", "0", ".", "x", " ">>,
      <<"n", "o", "t", "-", "a", "-", "j", "w", "t">> }

\* The objects an issuer puts into the tokens pasted into the textarea: one
\* whose encoding keeps to the characters base64 and base64url share
\* ("eyJhbGciOiJIUzI1NiJ9"), one whose encoding needs '-'
\* ("eyJzdWIiOiJ-In0").
IssuedObjects == { JsonObject([alg |-> "HS256"]), JsonObject([sub |-> "~"]) }

IssuedTokens ==
    { EncodeToken(header, payload, <<"x">>) :
        header \in IssuedObjects, payload \in IssuedObjects }

\* The input texts: those, the issued tokens, and every text of up to
\* MaxSegments segments of the pool joined by '.'.
TokenTexts ==
    LET joined[n \in 1..MaxSegments] ==
            IF n = 1 THEN SegmentPool
            ELSE { text \o <<".">> \o segment :
                     text \in joined[n - 1], segment \in SegmentPool }
    IN ExtraTokens \cup IssuedTokens \cup UNION { joined[n] : n \in 1..MaxSegments }

\* The textarea's onChange: setJwtToken, then the effect of the new render.
SetJwtToken(text) ==
    /\ text # jwtToken
    /\ jwtToken' = text
    /\ AutoDecodeEffect(text)
    /\ UNCHANGED verifierVars

\* The Decode button.
DecodeClick ==
    /\ decodeJwt(jwtToken)
    /\ UNCHANGED jwtToken
    /\ UNCHANGED verifierVars

\* clearJwt (the Clear button is disabled while the text is blank), then
\* the effect of the new render, which finds the text empty.
clearJwt ==
    /\ Trim(jwtToken) # <<>>
    /\ jwtToken' = <<>>
    /\ decodedJwt' = NullDecodedJwt
    /\ currentJwt' = <<>>
    /\ UNCHANGED <<toast, lastDecode>>
    /\ UNCHANGED verifierVars

-----------------------------------------------------------------------------
(* JwtVerifier and fetchWithCorsProxyFallback.                             *)
(* A verification call runs from one await to the next in one step; the    *)
(* network settles a pending request in a step of its own.                 *)

NoResult == [null |-> TRUE]
NoValues == [flow |-> "none"]
NoKey == [kid |-> "", key |-> ""]

MsgAsymmetricOk == "Token successfully verified with asymmetric key"
MsgSymmetricOk == "Token successfully verified with symmetric key"
MsgOpenIdOk == "Token successfully verified with OpenID provider"
MsgNoJwksUri == "JWKS URI not found in OpenID configuration"
MsgNoKid == "Token header does not contain a key ID (kid)"
MsgNoMatchingKey == "No matching key found for kid"
MsgProxyFailed == "Failed to fetch (with CORS proxy)"
MsgFallbackFailed == "Failed to fetch (with CORS proxy fallback)"
MsgFetchRejected == "Failed to fetch"

\* The history of requests: who issued the request (the configuration
\* fetch, the JWKS fetch, or jose's remote key set), the url, how the request
\* ended, and whether the answer was the provider's own document for it.
Pending(url, site) ==
    [site |-> site, url |-> url, outcome |-> "pending", genuine |-> FALSE]

Genuine(url, body) ==
    body = IF IsJwksUrl(url) THEN ProviderJwks ELSE DiscoveryDocument

\* The requests with the pending one (the last) settled.
Settled(outcome, body) ==
    [requests EXCEPT ![Len(requests)] =
        [site |-> @.site, url |-> @.url, outcome |-> outcome,
         genuine |-> outcome = "ok" /\ Genuine(@.url, body)]]

locals == <<fetchSite, fetchStage, fetchUrl, response, config, matchingKey>>

\* A catch block that attaches details to the failure it reports.
CatchWithDetails(message) ==
    /\ verificationResult' =
          [isValid |-> FALSE, message |-> message, details |-> [error |-> message]]
    /\ isVerifying' = FALSE
    /\ pc' = "returned"
    /\ UNCHANGED locals
    /\ UNCHANGED unhandled

\* A catch block that rethrows, as the one of fetchWithCorsProxyFallback does
\* (lines 148-151): the finally block runs, the error leaves the entry point.
CatchRethrows(message) ==
    /\ unhandled' = TRUE
    /\ isVerifying' = FALSE
    /\ pc' = "returned"
    /\ UNCHANGED locals
    /\ UNCHANGED verificationResult

\* A catch block without the finally block: isVerifying is left set.
CatchWithoutFinally(message) ==
    /\ verificationResult' = [isValid |-> FALSE, message |-> message]
    /\ pc' = "returned"
    /\ UNCHANGED isVerifying
    /\ UNCHANGED locals
    /\ UNCHANGED unhandled

\* The catch and finally blocks of an entry point.
Catch(message) ==
    /\ verificationResult' = [isValid |-> FALSE, message |-> message]
    /\ isVerifying' = FALSE
    /\ pc' = "returned"
    /\ UNCHANGED locals
    /\ UNCHANGED unhandled

\* The end of the try block of an entry point, and its finally block.
Return(message, verified) ==
    /\ verificationResult' =
          [isValid |-> TRUE, message |-> message,
           details |-> [payload |-> verified.payload,
                        protectedHeader |-> verified.protectedHeader]]
    /\ isVerifying' = FALSE
    /\ pc' = "returned"
    /\ UNCHANGED locals
    /\ UNCHANGED unhandled

\* setIsVerifying(true); setVerificationResult(null) at the top of each
\* entry point. The submit buttons are disabled while isVerifying.
Begin(formValues) ==
    /\ pc = "idle"
    /\ ~isVerifying
    /\ verificationMethod = formValues.flow
    /\ values' = formValues
    /\ UNCHANGED verificationMethod

\* A fetchWithCorsProxyFallback that tries the direct request first whatever
\* useCorsProxy says.
FetchBeginDirectFirst(url, useCorsProxy, site, issued) ==
    /\ pc' = "fetch"
    /\ fetchSite' = site
    /\ fetchUrl' = url
    /\ fetchStage' = "direct"
    /\ requests' = Append(issued, Pending(url, site))

\* A fetchWithCorsProxyFallback that races the direct and the proxy request
\* when the proxy is not asked for.
FetchBeginRace(url, useCorsProxy, site, issued) ==
    /\ pc' = "fetch"
    /\ fetchSite' = site
    /\ fetchUrl' = url
    /\ fetchStage' = IF useCorsProxy THEN "proxy" ELSE "fallback"
    /\ requests' = IF useCorsProxy
                   THEN Append(issued, Pending(ProxyUrl(url), site))
                   ELSE issued \o <<Pending(url, site), Pending(ProxyUrl(url), site)>>

\* fetchWithCorsProxyFallback(url, useCorsProxy) up to its first await: the
\* direct request, or the proxy request when the proxy is asked for.
FetchBegin(url, useCorsProxy, site, issued) ==
    /\ pc' = "fetch"
    /\ fetchSite' = site
    /\ fetchUrl' = url
    /\ fetchStage' = IF useCorsProxy THEN "proxy" ELSE "direct"
    /\ requests' = Append(issued, Pending(IF useCorsProxy THEN ProxyUrl(url) ELSE url, site))

\* The form values of the three forms (each passed its zod schema).
AsymmetricValues ==
    [flow : {"asymmetricKey"}, token : VerifierTokens,
     publicKey : {"PEM K1", "PEM K2", "no PEM"},
     algorithm : {"", "RS256", "ES256"}]

SymmetricValues ==
    [flow : {"symmetricKey"}, token : VerifierTokens,
     secretKey : {"S1", "S2"}, algorithm : {"HS256", "HS384"}]

OpenIdValues ==
    [flow : {"openId"}, token : VerifierTokens,
     issuerUrl : IssuerUrls, useCorsProxy : BOOLEAN]

\* handleTabChange of JwtVerifier
handleTabChange(value) ==
    /\ value # verificationMethod
    /\ verificationMethod' = value
    /\ verificationResult' = NoResult
    /\ UNCHANGED <<isVerifying, pc, values, fetchSite, fetchStage, fetchUrl,
                   response, config, matchingKey, requests, unhandled>>
    /\ UNCHANGED decoderVars

\* verifyWithAsymmetricKey up to await jose.importSPKI
verifyWithAsymmetricKey(formValues) ==
    /\ Begin(formValues)
    /\ requests' = <<>>
    /\ LET tokenHeader == TokenHeader(formValues.token)
       IN IF ~tokenHeader.ok
          THEN Catch(tokenHeader.error)
          ELSE IF formValues.algorithm = "" /\ tokenHeader.value.type = "null"
          THEN Catch("TypeError")
          ELSE /\ verificationResult' = NoResult
               /\ isVerifying' = TRUE
               /\ pc' = "importSPKI"
               /\ UNCHANGED <<fetchSite, fetchStage, fetchUrl, response, config,
                              matchingKey, unhandled>>
    /\ UNCHANGED decoderVars

\* const alg = algorithm || tokenHeader.alg || "RS256"
AsymmetricAlg(formValues) ==
    LET tokenHeader == TokenHeader(formValues.token).value
    IN IF formValues.algorithm # "" THEN formValues.algorithm
       ELSE IF HasProp(tokenHeader, "alg") /\ tokenHeader.props.alg # ""
            THEN tokenHeader.props.alg
            ELSE "RS256"

\* jose.importSPKI settles; on success on to await jose.jwtVerify
ImportSPKISettles ==
    /\ pc = "importSPKI"
    /\ LET imported == ImportSPKI(values.publicKey, AsymmetricAlg(values))
       IN IF ~imported.ok
          THEN Catch(imported.error)
          ELSE /\ pc' = "jwtVerify"
               /\ UNCHANGED <<verificationResult, isVerifying, fetchSite,
                              fetchStage, fetchUrl, response, config,
                              matchingKey, unhandled>>
    /\ UNCHANGED <<verificationMethod, values, requests>>
    /\ UNCHANGED decoderVars

\* verifyWithSymmetricKey up to await jose.jwtVerify
verifyWithSymmetricKey(formValues) ==
    /\ Begin(formValues)
    /\ requests' = <<>>
    /\ verificationResult' = NoResult
    /\ isVerifying' = TRUE
    /\ pc' = "jwtVerify"
    /\ UNCHANGED <<fetchSite, fetchStage, fetchUrl, response, config,
                   matchingKey, unhandled>>
    /\ UNCHANGED decoderVars

\* The algorithms option of the flow's jose.jwtVerify call, {} when the call
\* passes none: [alg] at lines 239-241, [algorithm] at 278-280, only
\* {issuer} at 361-363.
JwtVerifyAlgorithms(formValues) ==
    CASE formValues.flow = "asymmetricKey" -> {AsymmetricAlg(formValues)}
      [] formValues.flow = "symmetricKey" -> {formValues.algorithm}
      [] formValues.flow = "openId" -> {}

\* jose.jwtVerify(token, key, {algorithms: [alg]}) of the two key flows
KeyFlowVerify(formValues) ==
    LET asymmetric == formValues.flow = "asymmetricKey"
        alg == IF asymmetric THEN AsymmetricAlg(formValues) ELSE formValues.algorithm
        key == IF asymmetric
               THEN ImportSPKI(formValues.publicKey, alg).key
               ELSE formValues.secretKey
        header == JoseProtectedHeader(formValues.token, JwtVerifyAlgorithms(formValues))
    IN IF ~header.ok THEN header
       ELSE JoseVerifyWithKey(formValues.token, key, {})

\* jose.jwtVerify settles in verifyWithAsymmetricKey or verifyWithSymmetricKey
JwtVerifySettles ==
    /\ pc = "jwtVerify"
    /\ LET verified == KeyFlowVerify(values)
       IN IF verified.ok
          THEN Return(IF values.flow = "asymmetricKey"
                      THEN MsgAsymmetricOk ELSE MsgSymmetricOk, verified)
          ELSE Catch(verified.error)
    /\ UNCHANGED <<verificationMethod, values, requests>>
    /\ UNCHANGED decoderVars

\* A verifyWithOpenId that sends the start of the token along as a query
\* parameter of the configuration request.
verifyWithOpenIdSendsToken(formValues) ==
    /\ Begin(formValues)
    /\ verificationResult' = NoResult
    /\ isVerifying' = TRUE
    /\ FetchBegin(OpenIdConfigUrl(formValues.issuerUrl)
                     \o <<"?token=", formValues.token[1]>>,
                  formValues.useCorsProxy, "config", <<>>)
    /\ UNCHANGED <<response, config, matchingKey, unhandled>>
    /\ UNCHANGED decoderVars

\* verifyWithOpenId up to the first await of the configuration fetch
verifyWithOpenId(formValues) ==
    /\ Begin(formValues)
    /\ verificationResult' = NoResult
    /\ isVerifying' = TRUE
    /\ FetchBegin(OpenIdConfigUrl(formValues.issuerUrl), formValues.useCorsProxy,
                  "config", <<>>)
    /\ UNCHANGED <<response, config, matchingKey, unhandled>>
    /\ UNCHANGED decoderVars

\* The rest of fetchWithCorsProxyFallback: a pending request settles.
FetchSettles(outcome, body) ==
    /\ pc = "fetch"
    /\ IF outcome = "ok"
       THEN \* return response / return proxyResponse
            /\ pc' = "json"
            /\ response' = body
            /\ requests' = Settled(outcome, body)
            /\ UNCHANGED <<verificationResult, isVerifying, fetchSite, fetchStage,
                           fetchUrl, config, matchingKey, unhandled>>
       ELSE IF fetchStage = "direct" /\ outcome = "status"
       THEN \* lines 130-138: not ok, on to the proxy request of the try block
            /\ fetchStage' = "proxy"
            /\ requests' = Append(Settled(outcome, body),
                                 Pending(ProxyUrl(fetchUrl), fetchSite))
            /\ UNCHANGED <<verificationResult, isVerifying, pc, fetchSite,
                           fetchUrl, response, config, matchingKey, unhandled>>
       ELSE IF fetchStage \in {"direct", "proxy"} /\ ~values.useCorsProxy
       THEN \* lines 147-155: the catch block issues the proxy request
            /\ fetchStage' = "fallback"
            /\ requests' = Append(Settled(outcome, body),
                                 Pending(ProxyUrl(fetchUrl), fetchSite))
            /\ UNCHANGED <<verificationResult, isVerifying, pc, fetchSite,
                           fetchUrl, response, config, matchingKey, unhandled>>
       ELSE \* lines 148-151 or 157-161: the error leaves the function
            /\ requests' = Settled(outcome, body)
            /\ Catch(IF outcome = "network" THEN MsgFetchRejected
                     ELSE IF fetchStage = "proxy" THEN MsgProxyFailed
                     ELSE MsgFallbackFailed)
    /\ UNCHANGED <<verificationMethod, values>>
    /\ UNCHANGED decoderVars

\* The default-key slip: a header without kid is taken to name key "a".
KidOrDefault(tokenHeader) ==
    IF HasProp(tokenHeader, "kid") /\ tokenHeader.props.kid # ""
    THEN tokenHeader.props.kid
    ELSE "a"

\* const kid = tokenHeader.kid, "" standing for every falsy value
KidOf(tokenHeader) ==
    IF HasProp(tokenHeader, "kid") THEN tokenHeader.props.kid ELSE ""

\* find falling back to the first key when no key matches.
FindKeyOrFirst(keys, kid) ==
    IF \E i \in 1..Len(keys) : keys[i].kid = kid
    THEN CHOOSE i \in 1..Len(keys) :
            /\ keys[i].kid = kid
            /\ \A j \in 1..(i - 1) : keys[j].kid # kid
    ELSE IF keys # <<>> THEN 1 ELSE 0

\* jwks.keys.find((key) => key.kid === kid): the index of the first match, 0
\* when there is none.
FindKey(keys, kid) ==
    IF \E i \in 1..Len(keys) : keys[i].kid = kid
    THEN CHOOSE i \in 1..Len(keys) :
            /\ keys[i].kid = kid
            /\ \A j \in 1..(i - 1) : keys[j].kid # kid
    ELSE 0

\* const jwksInstanceUrl = useCorsProxy ? proxy url : jwksUri
JwksInstanceUrl(jwksUri, useCorsProxy) ==
    IF useCorsProxy THEN ProxyUrl(jwksUri) ELSE jwksUri

\* verifyWithOpenId from the parsed JWKS (line 336) up to the request that
\* jose's remote key set makes inside jose.jwtVerify.
SelectKeyAndVerify(jwks) ==
    LET tokenHeader == TokenHeader(values.token)
    IN IF ~tokenHeader.ok THEN
            /\ Catch(tokenHeader.error)
            /\ UNCHANGED requests
       ELSE IF tokenHeader.value.type = "null" THEN
            /\ Catch("TypeError")
            /\ UNCHANGED requests
       ELSE IF KidOf(tokenHeader.value) = "" THEN
            /\ Catch(MsgNoKid)
            /\ UNCHANGED requests
       ELSE IF ~Has(jwks, "keys") THEN
            /\ Catch("TypeError")
            /\ UNCHANGED requests
       ELSE IF FindKey(jwks.props.keys, KidOf(tokenHeader.value)) = 0 THEN
            /\ Catch(MsgNoMatchingKey)
            /\ UNCHANGED requests
       ELSE IF ~JoseProtectedHeader(values.token, JwtVerifyAlgorithms(values)).ok THEN
            /\ Catch(JoseProtectedHeader(values.token, JwtVerifyAlgorithms(values)).error)
            /\ UNCHANGED requests
       ELSE /\ matchingKey' =
                 jwks.props.keys[FindKey(jwks.props.keys, KidOf(tokenHeader.value))]
            /\ pc' = "remoteJWKSet"
            /\ requests' = Append(requests,
                 Pending(JwksInstanceUrl(config.props.jwks_uri, values.useCorsProxy),
                         "jose"))
            /\ UNCHANGED <<verificationResult, isVerifying, fetchSite, fetchStage,
                           fetchUrl, response, config, unhandled>>

\* await response.json() settles, and verifyWithOpenId runs on to its next await
JsonSettles ==
    /\ pc = "json"
    /\ IF ~response.json THEN
            /\ Catch("SyntaxError")
            /\ UNCHANGED requests
       ELSE IF fetchSite = "config" THEN
            IF ~Has(response, "jwks_uri") THEN
                /\ Catch(MsgNoJwksUri)
                /\ UNCHANGED requests
            ELSE
                /\ config' = response
                /\ response' = NoBody
                /\ FetchBegin(response.props.jwks_uri, values.useCorsProxy,
                              "jwks", requests)
                /\ UNCHANGED <<verificationResult, isVerifying, matchingKey, unhandled>>
       ELSE SelectKeyAndVerify(response)
    /\ UNCHANGED <<verificationMethod, values>>
    /\ UNCHANGED decoderVars

\* The keys of a JWKS that jose's remote key set takes for a header: the key
\* type must fit and, when the header has a kid, the key id.
JoseCandidates(keys, header) ==
    { i \in 1..Len(keys) :
        /\ KeyType(keys[i].key) = KeyTypeOf(header.props.alg)
        /\ HasProp(header, "kid") => keys[i].kid = header.props.kid }

\* jose.jwtVerify(token, jwksInstance, {issuer: config.issuer}) once the
\* remote key set's request has settled.
RemoteJwtVerify(token, outcome, body, discovery) ==
    LET header == JoseProtectedHeader(token, {}).value
    IN IF outcome # "ok"
       THEN [ok |-> FALSE, error |-> IF outcome = "network" THEN MsgFetchRejected
                                     ELSE "Expected 200 OK from the JSON Web Key Set HTTP response"]
       ELSE IF ~body.json
       THEN [ok |-> FALSE, error |-> "Failed to parse the JSON Web Key Set HTTP response as JSON"]
       ELSE IF ~Has(body, "keys")
       THEN [ok |-> FALSE, error |-> "JSON Web Key Set malformed"]
       ELSE LET found == JoseCandidates(body.props.keys, header)
            IN IF found = {}
               THEN [ok |-> FALSE, error |-> "no applicable key found in the JSON Web Key Set"]
               ELSE IF Cardinality(found) > 1
               THEN [ok |-> FALSE, error |-> "multiple matching keys found in the JSON Web Key Set"]
               ELSE JoseVerifyWithKey(token,
                        body.props.keys[CHOOSE i \in found : TRUE].key,
                        IF Has(discovery, "issuer")
                        THEN {discovery.props.issuer} ELSE {})

\* The remote key set's request settles and jose.jwtVerify with it.
RemoteJWKSetSettles(outcome, body) ==
    /\ pc = "remoteJWKSet"
    /\ requests' = Settled(outcome, body)
    /\ LET verified == RemoteJwtVerify(values.token, outcome, body, config)
       IN IF verified.ok
          THEN Return(MsgOpenIdOk, verified)
          ELSE Catch(verified.error)
    /\ UNCHANGED <<verificationMethod, values>>
    /\ UNCHANGED decoderVars

\* The call has returned: its form values, its local variables and the
\* history of its requests are dropped, and the re-rendered form can be
\* submitted again.
CallEnds ==
    /\ pc = "returned"
    /\ pc' = "idle"
    /\ values' = NoValues
    /\ fetchSite' = "none"
    /\ fetchStage' = "none"
    /\ fetchUrl' = <<>>
    /\ response' = NoBody
    /\ config' = NoBody
    /\ matchingKey' = NoKey
    /\ requests' = <<>>
    /\ UNCHANGED <<verificationMethod, verificationResult, isVerifying, unhandled>>
    /\ UNCHANGED decoderVars

\* The network answers the pending request of fetchWithCorsProxyFallback.
FetchResponds ==
    \E outcome \in Outcomes :
        \E body \in (IF outcome = "ok" /\ pc = "fetch"
                      THEN Bodies(requests[Len(requests)].url) ELSE {NoBody}) :
            FetchSettles(outcome, body)

\* The network answers the request of jose's remote key set.
RemoteJWKSetResponds ==
    \E outcome \in Outcomes :
        \E body \in (IF outcome = "ok" /\ pc = "remoteJWKSet"
                      THEN Bodies(requests[Len(requests)].url) ELSE {NoBody}) :
            RemoteJWKSetSettles(outcome, body)

VerifierInit ==
    /\ verificationMethod = "asymmetricKey"
    /\ verificationResult = NoResult
    /\ isVerifying = FALSE
    /\ pc = "idle"
    /\ values = NoValues
    /\ fetchSite = "none"
    /\ fetchStage = "none"
    /\ fetchUrl = <<>>
    /\ response = NoBody
    /\ config = NoBody
    /\ matchingKey = NoKey
    /\ requests = <<>>
    /\ unhandled = FALSE

DecoderInit ==
    /\ jwtToken = <<>>
    /\ decodedJwt = NullDecodedJwt
    /\ currentJwt = <<>>
    /\ toast = ""
    /\ lastDecode = [token |-> <<>>, result |-> "none"]

Init == DecoderInit /\ VerifierInit

DecoderNext ==
    \/ \E text \in TokenTexts : SetJwtToken(text)
    \/ DecodeClick
    \/ clearJwt

Next ==
    \/ \E value \in {"asymmetricKey", "symmetricKey", "openId"} : handleTabChange(value)
    \/ \E formValues \in AsymmetricValues : verifyWithAsymmetricKey(formValues)
    \/ ImportSPKISettles
    \/ \E formValues \in SymmetricValues : verifyWithSymmetricKey(formValues)
    \/ JwtVerifySettles
    \/ \E formValues \in OpenIdValues : verifyWithOpenId(formValues)
    \/ FetchResponds
    \/ JsonSettles
    \/ RemoteJWKSetResponds
    \/ CallEnds

\* JwtDecoder alone
DecoderSpec == Init /\ [][DecoderNext]_vars

\* JwtVerifier alone
Spec == Init /\ [][Next]_vars

\* JwtVerifier when every promise awaited settles: each network request is
\* answered or fails, and jose and response.json() return.
LiveSpec ==
    /\ Spec
    /\ WF_vars(ImportSPKISettles)
    /\ WF_vars(JwtVerifySettles)
    /\ WF_vars(FetchResponds)
    /\ WF_vars(JsonSettles)
    /\ WF_vars(RemoteJWKSetResponds)

-----------------------------------------------------------------------------
(* Properties of fetchWithCorsProxyFallback and JwtVerifier.               *)

\* The call in flight, or returned and not yet dropped, is verifyWithOpenId.
OpenIdCall == values.flow = "openId"

\* The requests issued so far by one site of the call.
RequestsOf(site) == SelectSeq(requests, LAMBDA r : r.site = site)

Failed(request) == request.outcome \in {"status", "network"}

\* The call has returned and its result is still shown.
ResultShown == pc = "returned" /\ verificationResult # NoResult

\* The token's header decodes to an object that has no kid.
HeaderWithoutKid(token) ==
    /\ TokenHeader(token).ok
    /\ TokenHeader(token).value.type = "object"
    /\ ~HasProp(TokenHeader(token).value, "kid")

\* C1: with useCorsProxy = false, whichever way the direct request of a
\* fetchWithCorsProxyFallback call fails, exactly one request through the
\* proxy follows it, and the call never issues more than two requests.
C1_AtMostTwoRequestsPerFetch ==
    (OpenIdCall /\ ~values.useCorsProxy) =>
        \A site \in {"config", "jwks"} :
            LET issued == RequestsOf(site)
            IN /\ Len(issued) <= 2
               /\ (issued # <<>> /\ Failed(issued[1])) =>
                      /\ Len(issued) = 2
                      /\ IsProxyUrl(issued[2].url)

\* The token of C2: signed by K1, the provider's key "a", with the
\* provider's issuer.
ProviderToken == Token(HeaderRs256KidA, PayloadIssI, SignatureK1)

\* Every direct request of the call failed, every request through the proxy
\* was answered with the provider's own document.
DirectBlockedProxyServes ==
    \A i \in 1..Len(requests) :
        IF IsProxyUrl(requests[i].url)
        THEN requests[i].outcome = "ok" /\ requests[i].genuine
        ELSE Failed(requests[i])

\* C2: with "Use CORS Proxy" unchecked, direct requests failing and the proxy
\* serving the provider's documents, verifyWithOpenId of a token signed by
\* the provider ends with isValid = true.
C2_FallbackVerifiesBlockedProvider ==
    (/\ ResultShown
     /\ OpenIdCall
     /\ ~values.useCorsProxy
     /\ values.token = ProviderToken
     /\ DirectBlockedProxyServes)
    => verificationResult.isValid

\* C3 as stated: for a token whose header has no kid no network request is
\* ever issued by the OIDC flow.
C3_NoKidNoRequest ==
    (OpenIdCall /\ HeaderWithoutKid(values.token)) => requests = <<>>

\* C3 as the code has it: the kid is read only after the configuration and
\* the JWKS have been fetched and parsed. A token whose header has no kid
\* never gets as far as jose's remote key set (no request beyond those of the
\* two fetches), its attempt ends with isValid = false, and the error is the
\* missing-key-id one exactly when the JWKS fetch returned a JSON body.
C3_NoKidFailsAfterTheFetches ==
    (OpenIdCall /\ HeaderWithoutKid(values.token)) =>
        /\ pc # "remoteJWKSet"
        /\ \A i \in 1..Len(requests) : requests[i].site \in {"config", "jwks"}
        /\ ResultShown =>
              /\ ~verificationResult.isValid
              /\ verificationResult.message = MsgNoKid
                    <=> /\ fetchSite = "jwks"
                        /\ requests[Len(requests)].outcome = "ok"
                        /\ response.json

\* C3's case: the missing-key-id error after both fetches were made.
C3_NoKidErrorAfterFetches ==
    /\ ResultShown
    /\ OpenIdCall
    /\ HeaderWithoutKid(values.token)
    /\ verificationResult.message = MsgNoKid
    /\ RequestsOf("config") # <<>>
    /\ RequestsOf("jwks") # <<>>

\* C4: whenever verifyWithOpenId produces isValid = true, the payload's iss
\* equals the issuer of the fetched discovery document; a document without
\* an issuer lets no token through.
C4_ValidImpliesIssuerOfDiscovery ==
    (ResultShown /\ OpenIdCall /\ verificationResult.isValid) =>
        /\ Has(config, "issuer")
        /\ HasProp(verificationResult.details.payload, "iss")
        /\ verificationResult.details.payload.props.iss = config.props.issuer

\* C5: an OIDC attempt makes two fetches, the configuration and the JWKS,
\* both through fetchWithCorsProxyFallback, and no request after the JWKS
\* fetch has returned; the signature is checked with the JWK found in the
\* fetched set.
C5_TwoFetchesThenNoRequest ==
    OpenIdCall =>
        /\ \A i \in 1..Len(requests) : requests[i].site \in {"config", "jwks"}
        /\ (ResultShown /\ verificationResult.isValid) =>
              Signer(Split(values.token, ".")[3]) = matchingKey.key

\* Key selection was reached and no key of the fetched JWKS has the token's
\* kid.
NoKeyWithKid ==
    /\ OpenIdCall
    /\ fetchSite = "jwks"
    /\ response.json
    /\ Has(response, "keys")
    /\ TokenHeader(values.token).ok
    /\ HasProp(TokenHeader(values.token).value, "kid")
    /\ \A i \in 1..Len(response.props.keys) :
          response.props.keys[i].kid # TokenHeader(values.token).value.props.kid

\* C6: if no key of the fetched JWKS has the token's kid, the result is
\* isValid = false with the no-matching-key error, however many keys there
\* are, and signature verification (jose's remote key set) is never reached.
C6_NoMatchingKeyFails ==
    NoKeyWithKid =>
        /\ pc \in {"json", "returned"}
        /\ \A i \in 1..Len(requests) : requests[i].site # "jose"
        /\ ResultShown =>
              verificationResult = [isValid |-> FALSE, message |-> MsgNoMatchingKey]

\* C6's case: the error with two keys in the set, none matching.
C6_TwoKeysNoneMatching ==
    /\ ResultShown
    /\ NoKeyWithKid
    /\ Len(response.props.keys) >= 2
    /\ verificationResult.message = MsgNoMatchingKey

\* C7: a non-null verificationResult has details if and only if it is valid.
C7_DetailsIffValid ==
    verificationResult # NoResult =>
        ("details" \in DOMAIN verificationResult <=> verificationResult.isValid)

\* C7's case: a valid result of the OIDC flow, with its details.
C7_ValidOpenIdResult ==
    /\ ResultShown
    /\ OpenIdCall
    /\ verificationResult.isValid
    /\ "details" \in DOMAIN verificationResult

\* A stage of the call failed: the header decode, the key import, a fetch,
\* the JSON parse of a response, the key selection, or the signature check.
StageFailed ==
    \/ /\ values.flow \in {"asymmetricKey", "openId"}
       /\ ~TokenHeader(values.token).ok
    \/ /\ values.flow = "asymmetricKey"
       /\ values.publicKey = "no PEM"
    \/ /\ OpenIdCall
       /\ Failed(requests[Len(requests)])
    \/ /\ OpenIdCall
       /\ response = NotJson
    \/ NoKeyWithKid
    \/ /\ values.flow \in {"asymmetricKey", "symmetricKey"}
       /\ LET parts == Split(values.token, ".")
          IN /\ Len(parts) = 3
             /\ Signer(parts[3]) #
                   CASE values.flow = "symmetricKey" -> values.secretKey
                     [] values.publicKey = "PEM K1" -> "K1"
                     [] values.publicKey = "PEM K2" -> "K2"
                     [] OTHER -> "nobody"

\* C8: in each of the three entry points a failure at any stage is caught
\* and turned into verificationResult {isValid: false, message}; no error
\* leaves an entry point, and every call that returns has set a result.
C8_FailuresBecomeResults ==
    /\ [](/\ ~unhandled
          /\ pc = "returned" => ~isVerifying
          /\ (ResultShown /\ StageFailed) =>
                /\ ~verificationResult.isValid
                /\ DOMAIN verificationResult = {"isValid", "message"})
    /\ [][(pc # "returned" /\ pc' = "returned") =>
            /\ verificationResult' # NoResult
            /\ "message" \in DOMAIN verificationResult']_vars

\* C8's case: the signature check of the OIDC flow failed and was reported.
C8_SignatureFailureReported ==
    /\ ResultShown
    /\ OpenIdCall
    /\ verificationResult = [isValid |-> FALSE, message |-> "signature verification failed"]

-----------------------------------------------------------------------------
(* Properties of JwtDecoder.                                               *)

CountChar(s, c) == Cardinality({ i \in 1..Len(s) : s[i] = c })

\* The header or the payload segment of a text is missing or empty.
HeaderOrPayloadEmpty(text) ==
    LET parts == Split(text, ".")
    IN Len(parts) < 2 \/ parts[1] = <<>> \/ parts[2] = <<>>

\* C9 as stated: decodeJwt succeeds only for texts that split on '.' into
\* exactly three segments none of which is empty.
C9_SuccessOnlyThreeNonEmptySegments ==
    lastDecode.result = "success" =>
        LET parts == Split(lastDecode.token, ".")
        IN Len(parts) = 3 /\ \A i \in 1..3 : parts[i] # <<>>

\* C9 as the code has it: decodeJwt succeeds only for texts with exactly two
\* '.' separators and a non-empty header and payload segment (the signature
\* segment may be empty); every non-blank text with another number of
\* separators, or with an empty header or payload segment, ends in the error
\* branch and leaves decodedJwt and the parent's token unchanged.
C9_SuccessOnlyThreeSegmentsHeaderPayloadNonEmpty ==
    /\ [](lastDecode.result = "success" =>
            /\ CountChar(lastDecode.token, ".") = 2
            /\ ~HeaderOrPayloadEmpty(lastDecode.token))
    /\ [][(/\ Trim(jwtToken') # <<>>
           /\ \/ CountChar(jwtToken', ".") # 2
              \/ HeaderOrPayloadEmpty(jwtToken'))
          => /\ decodedJwt' = decodedJwt
             /\ currentJwt' = currentJwt
             /\ lastDecode' = [token |-> jwtToken', result |-> "error"]]_vars

\* C9's case: a text with an empty signature segment was decoded.
C9_EmptySignatureDecoded ==
    /\ lastDecode.result = "success"
    /\ Split(lastDecode.token, ".")[3] = <<>>
    /\ decodedJwt.signature = [null |-> FALSE, text |-> <<>>]

\* C10 as stated: a header or payload segment that is valid JSON but not an
\* object makes decoding fail, so decodedJwt.header and decodedJwt.payload
\* are only ever null or a JSON object.
C10_NonObjectJsonRejected ==
    /\ decodedJwt.header.type \in {"null", "object"}
    /\ decodedJwt.payload.type \in {"null", "object"}
    /\ lastDecode.result = "success" =>
          LET parts == Split(lastDecode.token, ".")
          IN /\ ParseSegment(parts[1]).value.type = "object"
             /\ ParseSegment(parts[2]).value.type = "object"

\* C11: a token made of a header object and a payload object, each
\* base64url-encoded without padding, is accepted by the decoder, which shows
\* the header and the payload it was made of and forwards the token.
C11_IssuedTokenRoundTrip ==
    \A header \in IssuedObjects, payload \in IssuedObjects :
        jwtToken = EncodeToken(header, payload, <<"x">>) =>
            /\ decodedJwt.header = header
            /\ decodedJwt.payload = payload
            /\ currentJwt = jwtToken

\* The algorithms of the claim.
ConcreteAlgorithms ==
    {"HS256", "HS384", "HS512", "RS256", "RS384", "RS512",
     "ES256", "ES384", "ES512", "PS256", "PS384", "PS512"}

\* jose.jwtVerify has been called and has not settled.
InJwtVerify == pc \in {"jwtVerify", "remoteJWKSet"}

\* C12: whenever a flow has called jose.jwtVerify, the algorithms it passed
\* are exactly one concrete algorithm; in the asymmetric flow it is the
\* form's algorithm if given, else the alg of the token header.
C12_AlgorithmPinned ==
    InJwtVerify =>
        /\ \E alg \in ConcreteAlgorithms : JwtVerifyAlgorithms(values) = {alg}
        /\ values.flow = "asymmetricKey" =>
              IF values.algorithm # ""
              THEN JwtVerifyAlgorithms(values) = {values.algorithm}
              ELSE /\ HasProp(TokenHeader(values.token).value, "alg")
                   /\ JwtVerifyAlgorithms(values) =
                         {TokenHeader(values.token).value.props.alg}

\* The urls a request of a site may have, worked out from the issuer URL, the
\* proxy flag and the discovery document alone.
UrlsOf(site, issuerUrl, useCorsProxy, discovery) ==
    LET target == IF site = "config" THEN {OpenIdConfigUrl(issuerUrl)}
                  ELSE IF discovery.json /\ Has(discovery, "jwks_uri")
                  THEN {discovery.props.jwks_uri}
                  ELSE {}
        proxied == { ProxyUrl(url) : url \in target }
    IN IF useCorsProxy THEN proxied
       ELSE IF site = "jose" THEN target
       ELSE target \cup proxied

\* C13: only the OIDC flow issues network requests, and the url of every
\* request it issues is worked out from the issuer URL, the proxy flag and
\* the fetched discovery document, whatever the token is.
C13_NoTokenInRequests ==
    /\ [](/\ ~OpenIdCall => requests = <<>>
          /\ OpenIdCall =>
                \A i \in 1..Len(requests) :
                    requests[i].url \in UrlsOf(requests[i].site, values.issuerUrl,
                                               values.useCorsProxy, config))
    /\ [][requests' # requests /\ requests' # <<>> => values'.flow = "openId"]_vars

\* C13's case: an OIDC attempt that issued its requests for the
\* configuration, for the JWKS and for jose's key set.
C13_ThreeSitesRequested ==
    /\ ResultShown
    /\ OpenIdCall
    /\ \A site \in {"config", "jwks", "jose"} : RequestsOf(site) # <<>>

\* C14: with useCorsProxy = true a fetchWithCorsProxyFallback call issues
\* exactly one request, to the proxy url of its target and never to the
\* target itself; if that request fails the error is raised at once: the
\* attempt ends with isValid = false and no request follows.
C14_ProxyOnlyOneRequest ==
    (OpenIdCall /\ values.useCorsProxy) =>
        /\ \A i \in 1..Len(requests) : IsProxyUrl(requests[i].url)
        /\ \A site \in {"config", "jwks"} :
              LET issued == RequestsOf(site)
              IN /\ Len(issued) <= 1
                 /\ issued # <<>> =>
                       issued[1].url =
                           ProxyUrl(IF site = "config"
                                    THEN OpenIdConfigUrl(values.issuerUrl)
                                    ELSE config.props.jwks_uri)
                 /\ (issued # <<>> /\ Failed(issued[1])) =>
                       /\ requests[Len(requests)] = issued[1]
                       /\ ResultShown => ~verificationResult.isValid
                       /\ pc \in {"returned", "idle"}
        /\ pc = "fetch" => requests[Len(requests)].outcome = "pending"
        /\ pc \in {"json", "returned"} /\ requests # <<>> =>
              requests[Len(requests)].outcome # "pending"

\* C14's case: the proxy request of the JWKS fetch failed and the attempt
\* ended with that one request for the JWKS.
C14_ProxyFailureRaised ==
    /\ ResultShown
    /\ OpenIdCall
    /\ values.useCorsProxy
    /\ Len(RequestsOf("jwks")) = 1
    /\ Failed(RequestsOf("jwks")[1])
    /\ ~verificationResult.isValid

\* The order of the steps of an OIDC attempt.
StepOf(site) == CASE site = "config" -> 1 [] site = "jwks" -> 2 [] site = "jose" -> 3

\* Some request of the site was answered with a success status.
Answered(site) == \E i \in 1..Len(requests) :
                      requests[i].site = site /\ requests[i].outcome = "ok"

\* C15: within one OIDC attempt only the last request issued can be
\* outstanding; the requests come in the order discovery, JWKS, signature
\* verification; the JWKS fetch starts only after the discovery fetch was
\* answered and its document parsed with a jwks_uri, and signature
\* verification only after the JWKS fetch was answered; a discovery document
\* without jwks_uri ends the attempt with isValid = false and no JWKS request.
C15_StepsSequential ==
    OpenIdCall =>
        /\ \A i \in 1..Len(requests) :
              /\ requests[i].outcome = "pending" => i = Len(requests)
              /\ \A j \in 1..(i - 1) :
                    StepOf(requests[j].site) <= StepOf(requests[i].site)
        /\ RequestsOf("jwks") # <<>> =>
              /\ Answered("config")
              /\ config.json /\ Has(config, "jwks_uri")
        /\ RequestsOf("jose") # <<>> => Answered("jwks")
        /\ (fetchSite = "config" /\ response.json /\ ~Has(response, "jwks_uri")) =>
              /\ RequestsOf("jwks") = <<>>
              /\ RequestsOf("jose") = <<>>
              /\ pc \in {"json", "returned"}
              /\ ResultShown =>
                    verificationResult = [isValid |-> FALSE, message |-> MsgNoJwksUri]

\* C15's case: an attempt whose discovery fetch needed the proxy after the
\* direct request, and which went on to the JWKS fetch and to signature
\* verification.
C15_AllStepsInOrder ==
    /\ OpenIdCall
    /\ Len(RequestsOf("config")) = 2
    /\ RequestsOf("jwks") # <<>>
    /\ pc = "remoteJWKSet"

\* C16: a result is shown only for a verification submitted under the
\* method now selected: after handleTabChange the result stays null until a
\* verification submitted after the change completes, also when one
\* submitted under the previous method was in flight and completes later.
C16_ResultOfSelectedMethodOnly ==
    /\ ResultShown => values.flow = verificationMethod
    /\ (pc \notin {"idle", "returned"} /\ values.flow # verificationMethod) =>
          verificationResult = NoResult

\* C17: every verification that was started finishes, provided every
\* request is answered or fails: from any state in which a call is in flight
\* a state is reached in which the call has returned, isVerifying is false
\* and verificationResult is not null.
C17_VerificationFinishes ==
    (isVerifying \/ pc \notin {"idle", "returned"})
        ~> (pc = "returned" /\ ~isVerifying /\ verificationResult # NoResult)

\* C17's case: the longest attempt, three requests for the configuration,
\* three for the JWKS and jose's own, has finished.
C17_LongestAttemptFinished ==
    /\ ResultShown
    /\ OpenIdCall
    /\ ~isVerifying
    /\ Len(requests) = 7

\* C18: in JwtDecoder, after the auto-decode effect of an edit, a Decode
\* click or a Clear click, what is shown and what was forwarded belong to the
\* current text: decodedJwt is all null or the decoding of jwtToken, and the
\* token passed to onJwtChange is "" or jwtToken.
C18_DecodedBelongsToCurrentText ==
    /\ decodedJwt # NullDecodedJwt =>
          /\ DecodeToken(jwtToken).ok
          /\ decodedJwt = DecodeToken(jwtToken).decoded
    /\ currentJwt # <<>> => currentJwt = jwtToken

====
